---- MODULE Spec2Model ----
(***************************************************************************)
(* Session store of the restaurant web UI (frontend/src/store/auth.tsx):   *)
(* the auth reducer, the localStorage helpers, the AuthProvider's          *)
(* initialisation and auto-logout effects and its convenience methods.     *)
(*                                                                         *)
(* Time is discrete.  A timer created by setTimeout is a countdown: it is  *)
(* NotArmed, or holds the time left until its callback is due.  A due      *)
(* callback runs before time advances further.                             *)
(***************************************************************************)
EXTENDS Integers, Sequences, FiniteSets, TLC

\* ------------------------------------------------------------------------
\* Bounds
\* ------------------------------------------------------------------------
MaxTimeout == 2      \* largest configured SESSION_TIMEOUT / AUTO_LOGOUT_WARNING
MaxRef == 2          \* number of User objects the callers hold
MaxTok == 1          \* number of distinct token pairs issued by the backend

MaxElapsed == MaxTimeout + 1   \* cap of the observer's clock since login

\* ------------------------------------------------------------------------
\* Values
\* ------------------------------------------------------------------------
Null == [kind |-> "null"]

\* A JavaScript string, by its content.
Str(c) == [kind |-> "string", chars |-> c]

EmptyStr == Str(<<>>)

\* Truthiness of a value returned by localStorage.getItem (string or null).
Truthy(v) == v # Null /\ v # EmptyStr

NoPermissions == [p \in {} |-> TRUE]

\* The (role, permissions) content of the callers' r-th User object: objects
\* 1 and 3 are distinct objects of equal content.
UserContent(r) ==
  IF r % 2 = 1 THEN <<"OWNER", NoPermissions>>
  ELSE <<"STAFF", [p \in {"orders"} |-> TRUE]>>

\* A User object.  ref tells apart objects of equal content (Object.is);
\* ref 0 is an object made by JSON.parse, refs 1.. are the callers' objects.
MkUser(r, c) == [kind |-> "user", ref |-> r, role |-> c[1], permissions |-> c[2]]

UserObjs == {MkUser(r, UserContent(r)) : r \in 1..MaxRef}

\* An AuthTokens object as issued by the backend.
MkTokens(i) ==
  [kind |-> "tokens", access_token |-> Str(<<"access", i>>),
   refresh_token |-> Str(<<"refresh", i>>), token_type |-> "bearer",
   expires_in |-> 3600]

TokenObjs == {MkTokens(i) : i \in 1..MaxTok}

ErrorStrings == {Str(<<"login failed">>)}

\* ------------------------------------------------------------------------
\* localStorage
\* ------------------------------------------------------------------------
TOKEN_STORAGE_KEY == "restaurant_auth_token"

REFRESH_TOKEN_KEY == "restaurant_refresh_token"

USER_DATA_KEY == "restaurant_user_data"

StorageKeys == {TOKEN_STORAGE_KEY, REFRESH_TOKEN_KEY, USER_DATA_KEY}

EmptyStorage == [k \in {} |-> Null]

getItem(st, k) == IF k \in DOMAIN st THEN st[k] ELSE Null

\* setItem either stores the value or throws (quota exceeded) and stores
\* nothing; ok tells which.
setItem(st, k, v, ok) ==
  IF ok THEN [x \in (DOMAIN st) \cup {k} |-> IF x = k THEN v ELSE st[x]] ELSE st

removeItem(st, k) == [x \in (DOMAIN st) \ {k} |-> st[x]]

\* JSON.stringify(user): the record's fields; the object's identity is lost.
JSONstringify(u) == Str(<<"json", u.role, u.permissions>>)

IsJSON(s) == s.kind = "string" /\ Len(s.chars) = 3 /\ s.chars[1] = "json"

\* JSON.parse of a string JSON.stringify produced: a fresh object.
JSONparse(s) == MkUser(0, <<s.chars[2], s.chars[3]>>)

\* ------------------------------------------------------------------------
\* Reducer
\* ------------------------------------------------------------------------
initialState ==
  [user |-> Null, tokens |-> Null, isAuthenticated |-> FALSE,
   isLoading |-> TRUE, error |-> Null]

\* Variant: SET_LOADING also drops the error, as LOGIN_SUCCESS does.
ReduceSetLoading_clearsError(s, payload) ==
  [s EXCEPT !.isLoading = payload, !.error = Null]

ReduceSetLoading(s, payload) == [s EXCEPT !.isLoading = payload]

\* Variant: SET_ERROR without the reset of isLoading.
ReduceSetError_keepsLoading(s, payload) == [s EXCEPT !.error = payload]

ReduceSetError(s, payload) == [s EXCEPT !.error = payload, !.isLoading = FALSE]

ReduceLoginSuccess(s, payload) ==
  [s EXCEPT !.user = payload.user, !.tokens = payload.tokens,
            !.isAuthenticated = TRUE, !.isLoading = FALSE, !.error = Null]

\* Variant: LOGOUT of a store that holds no session reports an error.
ReduceLogout_reportsRepeat(s) ==
  [s EXCEPT !.user = Null, !.tokens = Null, !.isAuthenticated = FALSE,
            !.isLoading = FALSE,
            !.error = IF s.isAuthenticated THEN Null ELSE Str(<<"not logged in">>)]

ReduceLogout(s) ==
  [s EXCEPT !.user = Null, !.tokens = Null, !.isAuthenticated = FALSE,
            !.isLoading = FALSE, !.error = Null]

\* Variant: UPDATE_USER handled like a login.
ReduceUpdateUser_authenticates(s, payload) ==
  [s EXCEPT !.user = payload, !.isAuthenticated = TRUE]

ReduceUpdateUser(s, payload) == [s EXCEPT !.user = payload]

ReduceUpdateTokens(s, payload) == [s EXCEPT !.tokens = payload]

ReduceClearError(s) == [s EXCEPT !.error = Null]

authReducer(s, action) ==
  CASE action.type = "SET_LOADING" -> ReduceSetLoading(s, action.payload)
    [] action.type = "SET_ERROR" -> ReduceSetError(s, action.payload)
    [] action.type = "LOGIN_SUCCESS" -> ReduceLoginSuccess(s, action.payload)
    [] action.type = "LOGOUT" -> ReduceLogout(s)
    [] action.type = "UPDATE_USER" -> ReduceUpdateUser(s, action.payload)
    [] action.type = "UPDATE_TOKENS" -> ReduceUpdateTokens(s, action.payload)
    [] action.type = "CLEAR_ERROR" -> ReduceClearError(s)
    [] OTHER -> s

\* ------------------------------------------------------------------------
\* Storage helpers
\* ------------------------------------------------------------------------
\* Variant: one stored token is taken for a stored session (|| for &&).
getStoredTokens_either(st) ==
  LET accessToken == getItem(st, TOKEN_STORAGE_KEY)
      refreshToken == getItem(st, REFRESH_TOKEN_KEY)
  IN  IF Truthy(accessToken) \/ Truthy(refreshToken)
      THEN [kind |-> "tokens", access_token |-> accessToken,
            refresh_token |-> refreshToken, token_type |-> "bearer",
            expires_in |-> 0]
      ELSE Null

getStoredTokens(st) ==
  LET accessToken == getItem(st, TOKEN_STORAGE_KEY)
      refreshToken == getItem(st, REFRESH_TOKEN_KEY)
  IN  IF Truthy(accessToken) /\ Truthy(refreshToken)
      THEN [kind |-> "tokens", access_token |-> accessToken,
            refresh_token |-> refreshToken, token_type |-> "bearer",
            expires_in |-> 0]
      ELSE Null

\* The write faults of storeTokens: the first setItem throws (the second is
\* then skipped), the second throws, or none does.
TokenFaults == {"none", "access", "refresh"}

\* Variant: both tokens are written under the access-token key.
storeTokens_sameKey(st, tokens, fault) ==
  IF fault = "access" THEN st
  ELSE setItem(setItem(st, TOKEN_STORAGE_KEY, tokens.access_token, TRUE),
               TOKEN_STORAGE_KEY, tokens.refresh_token, fault # "refresh")

storeTokens(st, tokens, fault) ==
  IF fault = "access" THEN st
  ELSE setItem(setItem(st, TOKEN_STORAGE_KEY, tokens.access_token, TRUE),
               REFRESH_TOKEN_KEY, tokens.refresh_token, fault # "refresh")

clearStoredTokens(st) ==
  removeItem(removeItem(st, TOKEN_STORAGE_KEY), REFRESH_TOKEN_KEY)

\* Variant: the user record is read under another key than it is written.
getStoredUser_otherKey(st) ==
  LET userData == getItem(st, "user_data")
  IN  IF Truthy(userData) /\ IsJSON(userData) THEN JSONparse(userData) ELSE Null

getStoredUser(st) ==
  LET userData == getItem(st, USER_DATA_KEY)
  IN  IF Truthy(userData) /\ IsJSON(userData) THEN JSONparse(userData) ELSE Null

\* Variant: the user object is stored without JSON.stringify, as the string
\* setItem makes of it.
storeUser_rawObject(st, user, ok) ==
  setItem(st, USER_DATA_KEY, Str(<<"[object Object]">>), ok)

storeUser(st, user, ok) == setItem(st, USER_DATA_KEY, JSONstringify(user), ok)

\* Variant: the user record is removed under another key than it is written.
clearStoredUser_otherKey(st) == removeItem(st, "user_data")

clearStoredUser(st) == removeItem(st, USER_DATA_KEY)

\* ------------------------------------------------------------------------
\* State
\* ------------------------------------------------------------------------
VARIABLES
  state,                \* the reducer's AuthState
  storage,              \* localStorage: a function from the keys present
  phase,                \* "mounting" until the initialisation effect has run
  SESSION_TIMEOUT,      \* CONFIG.AUTH.SESSION_TIMEOUT
  AUTO_LOGOUT_WARNING,  \* CONFIG.AUTH.AUTO_LOGOUT_WARNING
  warningTimer,         \* time left of the armed warning timer, or NotArmed
  logoutTimer,          \* time left of the armed logout timer, or NotArmed
  effectPending,        \* the auto-logout effect's deps changed; not yet re-run
  storageReads,         \* number of times the storage has been read
  backendRequests,      \* number of requests sent to the backend
  call,                 \* observer: the last store operation and its arguments
  sinceLogin,           \* observer: time since the last login call (capped)
  quiet,                \* observer: no store method was called since that login
  warnings,             \* observer: warnings emitted since that login (capped)
  forced,               \* observer: timer logouts since that login (capped)
  ui,                   \* the UIProvider: its reducer state, effects and timers
  device,               \* the DeviceProvider: its state, listeners and timeouts
  query                 \* a request run by the query client, with its retries

vars ==
  <<state, storage, phase, SESSION_TIMEOUT, AUTO_LOGOUT_WARNING, warningTimer,
    logoutTimer, effectPending, storageReads, backendRequests, call,
    sinceLogin, quiet, warnings, forced, ui, device, query>>

\* The providers next to the AuthProvider; Null while a specification leaves
\* them out.
otherStores == <<ui, device, query>>

OthersAbsent == ui = Null /\ device = Null /\ query = Null

config == <<SESSION_TIMEOUT, AUTO_LOGOUT_WARNING>>

timers == <<warningTimer, logoutTimer>>

observers == <<sinceLogin, quiet, warnings, forced>>

NotArmed == -1

Min(a, b) == IF a < b THEN a ELSE b

Max(a, b) == IF a > b THEN a ELSE b

\* The record of a store operation: its name ("other" for the updates and
\* the status flags), the arguments of a login, whether its storage writes
\* succeeded, and (for a logout) whether the operation before it was a logout
\* too.
NoArgs(op) ==
  [op |-> op, user |-> Null, tokens |-> Null, ok |-> TRUE, again |-> FALSE]

LogoutOps == {"logout", "timeout"}

\* The dependency list of the auto-logout effect.
Deps(s) == <<s.isAuthenticated, s.user>>

\* What a browser profile can hold when the page loads: each key absent or as
\* an earlier page of this application wrote it.
StoredUsers == {JSONstringify(u) : u \in UserObjs}

InitialStorages ==
  {st \in UNION {[K -> StoredUsers \cup {t.access_token : t \in TokenObjs}
                        \cup {t.refresh_token : t \in TokenObjs}] : K \in SUBSET StorageKeys} :
     /\ USER_DATA_KEY \in DOMAIN st => st[USER_DATA_KEY] \in StoredUsers
     /\ TOKEN_STORAGE_KEY \in DOMAIN st =>
          st[TOKEN_STORAGE_KEY] \in {t.access_token : t \in TokenObjs}
     /\ REFRESH_TOKEN_KEY \in DOMAIN st =>
          st[REFRESH_TOKEN_KEY] \in {t.refresh_token : t \in TokenObjs}}

Init ==
  /\ state = initialState
  /\ storage \in InitialStorages
  /\ phase = "mounting"
  /\ SESSION_TIMEOUT \in 1..MaxTimeout
  /\ AUTO_LOGOUT_WARNING \in 0..SESSION_TIMEOUT
  /\ warningTimer = NotArmed
  /\ logoutTimer = NotArmed
  /\ effectPending = FALSE
  /\ storageReads = 0
  /\ backendRequests = 0
  /\ call = NoArgs("none")
  /\ sinceLogin = 0
  /\ quiet = FALSE
  /\ warnings = 0
  /\ forced = 0
  /\ OthersAbsent

\* ------------------------------------------------------------------------
\* Effects of the provider
\* ------------------------------------------------------------------------
\* The effect is re-run after a render whose deps differ from the previous
\* render's.
DepsChanged(s, t) == Deps(s) # Deps(t)

initializeAuth ==
  /\ phase = "mounting"
  /\ LET loading == authReducer(state, [type |-> "SET_LOADING", payload |-> TRUE])
         storedTokens == getStoredTokens(storage)
         storedUser == getStoredUser(storage)
         next == IF storedTokens # Null /\ storedUser # Null
                 THEN authReducer(loading,
                        [type |-> "LOGIN_SUCCESS",
                         payload |-> [user |-> storedUser, tokens |-> storedTokens]])
                 ELSE authReducer(loading, [type |-> "SET_LOADING", payload |-> FALSE])
     IN  /\ state' = next
         /\ effectPending' = (effectPending \/ DepsChanged(state, next))
  /\ phase' = "ready"
  /\ storageReads' = storageReads + 1
  /\ call' = NoArgs("init")
  /\ UNCHANGED <<storage, config, otherStores, timers, backendRequests, observers>>

\* Variant: the warning timer's delay is the lead time itself.
AutoLogoutEffect_leadAsDelay ==
  /\ effectPending
  /\ effectPending' = FALSE
  /\ IF ~state.isAuthenticated \/ state.user = Null
     THEN /\ warningTimer' = NotArmed
          /\ logoutTimer' = NotArmed
     ELSE /\ warningTimer' = AUTO_LOGOUT_WARNING
          /\ logoutTimer' = SESSION_TIMEOUT
  /\ UNCHANGED <<state, storage, phase, config, otherStores, storageReads, backendRequests,
                 call, observers>>

\* Cleanup of the previous run, then the effect body.
AutoLogoutEffect ==
  /\ effectPending
  /\ effectPending' = FALSE
  /\ IF ~state.isAuthenticated \/ state.user = Null
     THEN /\ warningTimer' = NotArmed
          /\ logoutTimer' = NotArmed
     ELSE /\ warningTimer' = Max(SESSION_TIMEOUT - AUTO_LOGOUT_WARNING, 0)
          /\ logoutTimer' = SESSION_TIMEOUT
  /\ UNCHANGED <<state, storage, phase, config, otherStores, storageReads, backendRequests,
                 call, observers>>

warningTimerFires ==
  /\ warningTimer = 0
  /\ warningTimer' = NotArmed
  /\ warnings' = IF quiet THEN Min(warnings + 1, 2) ELSE 0
  /\ UNCHANGED <<state, storage, phase, config, otherStores, logoutTimer, effectPending,
                 storageReads, backendRequests, call, sinceLogin, quiet, forced>>

\* Timers of equal due time run in the order they were created: the warning
\* timer first.
logoutTimerFires ==
  /\ logoutTimer = 0
  /\ warningTimer # 0
  /\ logoutTimer' = NotArmed
  /\ LET next == authReducer(state, [type |-> "LOGOUT"])
     IN  /\ state' = next
         /\ effectPending' = (effectPending \/ DepsChanged(state, next))
  /\ storage' = clearStoredUser(clearStoredTokens(storage))
  /\ forced' = IF quiet THEN Min(forced + 1, 2) ELSE 0
  /\ call' = [NoArgs("timeout") EXCEPT !.again = (call.op \in LogoutOps)]
  /\ UNCHANGED <<phase, config, otherStores, warningTimer, storageReads, backendRequests,
                 sinceLogin, quiet, warnings>>

\* Time advances by one unit; no callback is due and no effect is waiting.
Tick ==
  /\ phase = "ready"
  /\ ~effectPending
  /\ warningTimer # 0
  /\ logoutTimer # 0
  /\ warningTimer' = IF warningTimer = NotArmed THEN NotArmed ELSE warningTimer - 1
  /\ logoutTimer' = IF logoutTimer = NotArmed THEN NotArmed ELSE logoutTimer - 1
  /\ sinceLogin' = IF quiet THEN Min(sinceLogin + 1, MaxElapsed) ELSE 0
  /\ UNCHANGED <<state, storage, phase, config, otherStores, effectPending, storageReads,
                 backendRequests, call, quiet, warnings, forced>>

\* ------------------------------------------------------------------------
\* Convenience methods
\* ------------------------------------------------------------------------
\* A method is called from a handler of the mounted application, after the
\* effects of the previous render have run.
Callable == phase = "ready" /\ ~effectPending

\* The User objects a caller can pass: its own, or the one the store holds.
CallerUsers == UserObjs \cup ({state.user} \ {Null})

\* The observer's clock and counters run from a login call until the next
\* call of a store method.
OtherCall ==
  /\ quiet' = FALSE
  /\ sinceLogin' = 0
  /\ warnings' = 0
  /\ forced' = 0

Dispatch(action) ==
  LET next == authReducer(state, action)
  IN  /\ state' = next
      /\ effectPending' = (effectPending \/ DepsChanged(state, next))

\* Variant: the session is stored before the dispatch and a failed write
\* throws out of login.
login_persistFirst(user, tokens, userOk, fault) ==
  /\ Callable
  /\ IF userOk /\ fault = "none"
     THEN Dispatch([type |-> "LOGIN_SUCCESS", payload |-> [user |-> user, tokens |-> tokens]])
     ELSE UNCHANGED <<state, effectPending>>
  /\ storage' = storeTokens(storeUser(storage, user, userOk), tokens, fault)
  /\ call' = [NoArgs("login") EXCEPT !.user = user, !.tokens = tokens,
                                     !.ok = (userOk /\ fault = "none")]
  /\ sinceLogin' = 0
  /\ quiet' = TRUE
  /\ warnings' = 0
  /\ forced' = 0
  /\ UNCHANGED <<phase, config, otherStores, timers, storageReads, backendRequests>>

login(user, tokens, userOk, fault) ==
  /\ Callable
  /\ Dispatch([type |-> "LOGIN_SUCCESS", payload |-> [user |-> user, tokens |-> tokens]])
  /\ storage' = storeTokens(storeUser(storage, user, userOk), tokens, fault)
  /\ call' = [NoArgs("login") EXCEPT !.user = user, !.tokens = tokens,
                                     !.ok = (userOk /\ fault = "none")]
  /\ sinceLogin' = 0
  /\ quiet' = TRUE
  /\ warnings' = 0
  /\ forced' = 0
  /\ UNCHANGED <<phase, config, otherStores, timers, storageReads, backendRequests>>

logout ==
  /\ Callable
  /\ Dispatch([type |-> "LOGOUT"])
  /\ storage' = clearStoredUser(clearStoredTokens(storage))
  /\ call' = [NoArgs("logout") EXCEPT !.again = (call.op \in LogoutOps)]
  /\ OtherCall
  /\ UNCHANGED <<phase, config, otherStores, timers, storageReads, backendRequests>>

updateUser(user, userOk) ==
  /\ Callable
  /\ Dispatch([type |-> "UPDATE_USER", payload |-> user])
  /\ storage' = storeUser(storage, user, userOk)
  /\ call' = NoArgs("other")
  /\ OtherCall
  /\ UNCHANGED <<phase, config, otherStores, timers, storageReads, backendRequests>>

updateTokens(tokens, fault) ==
  /\ Callable
  /\ Dispatch([type |-> "UPDATE_TOKENS", payload |-> tokens])
  /\ storage' = storeTokens(storage, tokens, fault)
  /\ call' = NoArgs("other")
  /\ OtherCall
  /\ UNCHANGED <<phase, config, otherStores, timers, storageReads, backendRequests>>

setLoading(loading) ==
  /\ Callable
  /\ Dispatch([type |-> "SET_LOADING", payload |-> loading])
  /\ call' = NoArgs("other")
  /\ OtherCall
  /\ UNCHANGED <<storage, phase, config, otherStores, timers, storageReads, backendRequests>>

setError(error) ==
  /\ Callable
  /\ Dispatch([type |-> "SET_ERROR", payload |-> error])
  /\ call' = NoArgs("other")
  /\ OtherCall
  /\ UNCHANGED <<storage, phase, config, otherStores, timers, storageReads, backendRequests>>

clearError ==
  /\ Callable
  /\ Dispatch([type |-> "CLEAR_ERROR"])
  /\ call' = NoArgs("other")
  /\ OtherCall
  /\ UNCHANGED <<storage, phase, config, otherStores, timers, storageReads, backendRequests>>

\* ------------------------------------------------------------------------
\* Specifications
\* ------------------------------------------------------------------------
Next ==
  \/ initializeAuth
  \/ AutoLogoutEffect
  \/ warningTimerFires
  \/ logoutTimerFires
  \/ Tick
  \/ \E u \in CallerUsers, t \in TokenObjs, userOk \in BOOLEAN, fault \in TokenFaults :
       login(u, t, userOk, fault)
  \/ logout
  \/ \E u \in CallerUsers, userOk \in BOOLEAN : updateUser(u, userOk)
  \/ \E t \in TokenObjs, fault \in TokenFaults : updateTokens(t, fault)
  \/ \E b \in BOOLEAN : setLoading(b)
  \/ \E e \in ErrorStrings \cup {Null} : setError(e)
  \/ clearError

Spec == Init /\ [][Next]_vars

\* The store driven by login and logout only, with the timers.
SessionNext ==
  \/ initializeAuth
  \/ AutoLogoutEffect
  \/ warningTimerFires
  \/ logoutTimerFires
  \/ Tick
  \/ \E u \in CallerUsers, t \in TokenObjs, userOk \in BOOLEAN, fault \in TokenFaults :
       login(u, t, userOk, fault)
  \/ logout

SessionSpec == Init /\ [][SessionNext]_vars

\* ------------------------------------------------------------------------
\* Page reload, working storage
\* ------------------------------------------------------------------------
\* The page is reloaded: the provider is unmounted (the effect's cleanup
\* clears its timers) and a new one is mounted with the reducer's initial
\* state; localStorage keeps its content.  A reload that follows a login
\* directly is recorded as "reload", with the login's arguments.
remount ==
  /\ phase = "ready"
  /\ state' = initialState
  /\ phase' = "mounting"
  /\ warningTimer' = NotArmed
  /\ logoutTimer' = NotArmed
  /\ effectPending' = FALSE
  /\ storageReads' = 0
  /\ call' = IF call.op = "login" THEN [call EXCEPT !.op = "reload"] ELSE NoArgs("none")
  /\ OtherCall
  /\ UNCHANGED <<storage, config, otherStores, backendRequests>>

\* A browser profile the application has never written to.
InitFresh == Init /\ storage = EmptyStorage

\* The store with a storage whose writes all succeed, over page reloads.
WorkingNext ==
  \/ initializeAuth
  \/ AutoLogoutEffect
  \/ warningTimerFires
  \/ logoutTimerFires
  \/ Tick
  \/ \E u \in CallerUsers, t \in TokenObjs : login(u, t, TRUE, "none")
  \/ logout
  \/ \E u \in CallerUsers : updateUser(u, TRUE)
  \/ \E t \in TokenObjs : updateTokens(t, "none")
  \/ remount

WorkingSpec == InitFresh /\ [][WorkingNext]_vars

\* ------------------------------------------------------------------------
\* Initialisation with a storage that cannot be read
\* ------------------------------------------------------------------------
\* A user record that is not JSON (truncated, or written by something else).
CorruptRecord == Str(<<"{\"id\":">>)

\* The profiles of InitialStorages, and those with the user record corrupt.
ReadFaultStorages ==
  InitialStorages \cup
    {setItem(st, USER_DATA_KEY, CorruptRecord, TRUE) : st \in InitialStorages}

InitReadFault ==
  /\ state = initialState
  /\ storage \in ReadFaultStorages
  /\ phase = "mounting"
  /\ SESSION_TIMEOUT \in 1..MaxTimeout
  /\ AUTO_LOGOUT_WARNING \in 0..SESSION_TIMEOUT
  /\ warningTimer = NotArmed
  /\ logoutTimer = NotArmed
  /\ effectPending = FALSE
  /\ storageReads = 0
  /\ backendRequests = 0
  /\ call = NoArgs("none")
  /\ sinceLogin = 0
  /\ quiet = FALSE
  /\ warnings = 0
  /\ forced = 0
  /\ OthersAbsent

\* Variant: a read that throws is caught nowhere; the effect ends with the
\* store still loading.
initializeAuthReading_staysLoading(tokensOk, userOk) ==
  /\ phase = "mounting"
  /\ LET loading == authReducer(state, [type |-> "SET_LOADING", payload |-> TRUE])
         storedTokens == getStoredTokens(storage)
         storedUser == getStoredUser(storage)
         next == IF ~(tokensOk /\ userOk) THEN loading
                 ELSE IF storedTokens # Null /\ storedUser # Null
                 THEN authReducer(loading,
                        [type |-> "LOGIN_SUCCESS",
                         payload |-> [user |-> storedUser, tokens |-> storedTokens]])
                 ELSE authReducer(loading, [type |-> "SET_LOADING", payload |-> FALSE])
     IN  /\ state' = next
         /\ effectPending' = (effectPending \/ DepsChanged(state, next))
  /\ phase' = "ready"
  /\ storageReads' = storageReads + 1
  /\ call' = [NoArgs("init") EXCEPT !.ok = (tokensOk /\ userOk)]
  /\ UNCHANGED <<storage, config, otherStores, timers, backendRequests, observers>>

\* initializeAuth when localStorage.getItem may throw (access to the storage
\* denied): each helper catches the exception and returns null.  tokensOk and
\* userOk tell whether the reads of getStoredTokens and of getStoredUser
\* succeed; call.ok records whether both did.
initializeAuthReading(tokensOk, userOk) ==
  /\ phase = "mounting"
  /\ LET loading == authReducer(state, [type |-> "SET_LOADING", payload |-> TRUE])
         storedTokens == IF tokensOk THEN getStoredTokens(storage) ELSE Null
         storedUser == IF userOk THEN getStoredUser(storage) ELSE Null
         next == IF storedTokens # Null /\ storedUser # Null
                 THEN authReducer(loading,
                        [type |-> "LOGIN_SUCCESS",
                         payload |-> [user |-> storedUser, tokens |-> storedTokens]])
                 ELSE authReducer(loading, [type |-> "SET_LOADING", payload |-> FALSE])
     IN  /\ state' = next
         /\ effectPending' = (effectPending \/ DepsChanged(state, next))
  /\ phase' = "ready"
  /\ storageReads' = storageReads + 1
  /\ call' = [NoArgs("init") EXCEPT !.ok = (tokensOk /\ userOk)]
  /\ UNCHANGED <<storage, config, otherStores, timers, backendRequests, observers>>

\* The provider's start and its session, with no call of a store method.
RehydrateNext ==
  \/ \E tokensOk \in BOOLEAN, userOk \in BOOLEAN :
       initializeAuthReading(tokensOk, userOk)
  \/ AutoLogoutEffect
  \/ warningTimerFires
  \/ logoutTimerFires
  \/ Tick
  \/ remount

RehydrateSpec == InitReadFault /\ [][RehydrateNext]_vars

\* ------------------------------------------------------------------------
\* A session timeout not longer than the warning's lead time
\* ------------------------------------------------------------------------
\* The two delays come from the environment as given: the lead time can be
\* the session timeout or more.
InitShortSession ==
  /\ state = initialState
  /\ storage \in InitialStorages
  /\ phase = "mounting"
  /\ SESSION_TIMEOUT \in 1..MaxTimeout
  /\ AUTO_LOGOUT_WARNING \in SESSION_TIMEOUT..MaxTimeout
  /\ warningTimer = NotArmed
  /\ logoutTimer = NotArmed
  /\ effectPending = FALSE
  /\ storageReads = 0
  /\ backendRequests = 0
  /\ call = NoArgs("none")
  /\ sinceLogin = 0
  /\ quiet = FALSE
  /\ warnings = 0
  /\ forced = 0
  /\ OthersAbsent

ShortSessionSpec == InitShortSession /\ [][Next]_vars

\* ------------------------------------------------------------------------
\* The context's dispatch
\* ------------------------------------------------------------------------
\* The actions a consumer can build for the session fields.
SessionActions ==
  {[type |-> "LOGIN_SUCCESS", payload |-> [user |-> u, tokens |-> t]] :
     u \in UserObjs, t \in TokenObjs}
  \cup {[type |-> "LOGOUT"]}
  \cup {[type |-> "UPDATE_USER", payload |-> u] : u \in UserObjs}
  \cup {[type |-> "UPDATE_TOKENS", payload |-> t] : t \in TokenObjs}

\* The context value hands the reducer's dispatch to every consumer: the
\* action reaches the reducer, and no storage helper runs.
contextDispatch(action) ==
  /\ Callable
  /\ Dispatch(action)
  /\ call' = NoArgs("dispatch")
  /\ OtherCall
  /\ UNCHANGED <<storage, phase, config, otherStores, timers, storageReads, backendRequests>>

\* The store with a working storage and a consumer that also uses dispatch.
ConsumerNext ==
  \/ WorkingNext
  \/ \E a \in SessionActions : contextDispatch(a)

ConsumerSpec == InitFresh /\ [][ConsumerNext]_vars

\* ------------------------------------------------------------------------
\* React strict mode
\* ------------------------------------------------------------------------
\* With reactStrictMode a development build runs every mount effect, cleans
\* it up and runs it once more, in the commit of the mount; a production
\* build runs it once.  The second run of initializeAuth starts from the
\* state the first one left.
strictModeRerun ==
  /\ phase = "ready"
  /\ call.op = "init"
  /\ storageReads = 1
  /\ LET loading == authReducer(state, [type |-> "SET_LOADING", payload |-> TRUE])
         storedTokens == getStoredTokens(storage)
         storedUser == getStoredUser(storage)
         next == IF storedTokens # Null /\ storedUser # Null
                 THEN authReducer(loading,
                        [type |-> "LOGIN_SUCCESS",
                         payload |-> [user |-> storedUser, tokens |-> storedTokens]])
                 ELSE authReducer(loading, [type |-> "SET_LOADING", payload |-> FALSE])
     IN  /\ state' = next
         /\ effectPending' = (effectPending \/ DepsChanged(state, next))
  /\ storageReads' = storageReads + 1
  /\ UNCHANGED <<storage, phase, config, otherStores, timers, backendRequests, call, observers>>

StrictNext ==
  \/ Next
  \/ strictModeRerun

StrictSpec == Init /\ [][StrictNext]_vars

\* ------------------------------------------------------------------------
\* Permission helpers
\* ------------------------------------------------------------------------
\* The permission names a consumer asks about.
Permissions == {"orders", "reports"}

isOwnerOrManager(s) ==
  s.user # Null /\ (s.user.role = "OWNER" \/ s.user.role = "MANAGER")

hasPermission(s, permission) ==
  IF s.user = Null THEN FALSE
  ELSE IF s.user.role = "OWNER" \/ s.user.role = "ADMIN" THEN TRUE
  ELSE permission \in DOMAIN s.user.permissions /\ s.user.permissions[permission] = TRUE

\* ------------------------------------------------------------------------
\* UI store: reducer
\* ------------------------------------------------------------------------
\* The AuthProvider's part of the state while a specification of another
\* provider leaves it out (localStorage is shared and stated apart).
AuthAbsent ==
  /\ state = initialState
  /\ phase = "absent"
  /\ SESSION_TIMEOUT = 1
  /\ AUTO_LOGOUT_WARNING = 0
  /\ warningTimer = NotArmed
  /\ logoutTimer = NotArmed
  /\ effectPending = FALSE
  /\ storageReads = 0
  /\ backendRequests = 0
  /\ call = NoArgs("none")
  /\ sinceLogin = 0
  /\ quiet = FALSE
  /\ warnings = 0
  /\ forced = 0

authStore ==
  <<state, phase, config, timers, effectPending, storageReads, backendRequests,
    call, observers>>

Themes == {"light", "dark"}

\* The titles of the notifications the application shows.
Titles == {"saved", "failed"}

\* UIState, with the fields the theme and the notifications need (sidebarOpen,
\* loading and modal are set by actions that touch nothing else).
uiInitialState == [theme |-> "light", notifications |-> <<>>]

\* ADD_NOTIFICATION: the id is Date.now().toString(), now being the clock's
\* reading when the reducer runs.
ReduceAddNotification(s, payload, now) ==
  [s EXCEPT !.notifications =
     Append(@, [id |-> now, title |-> payload.title, duration |-> payload.duration])]

ReduceRemoveNotification(s, payload) ==
  [s EXCEPT !.notifications = SelectSeq(@, LAMBDA n : n.id # payload)]

ReduceClearNotifications(s) == [s EXCEPT !.notifications = <<>>]

ReduceSetTheme(s, payload) == [s EXCEPT !.theme = payload]

uiReducer(s, action, now) ==
  CASE action.type = "SET_THEME" -> ReduceSetTheme(s, action.payload)
    [] action.type = "ADD_NOTIFICATION" -> ReduceAddNotification(s, action.payload, now)
    [] action.type = "REMOVE_NOTIFICATION" -> ReduceRemoveNotification(s, action.payload)
    [] action.type = "CLEAR_NOTIFICATIONS" -> ReduceClearNotifications(s)
    [] OTHER -> s

\* ------------------------------------------------------------------------
\* UI store: notifications
\* ------------------------------------------------------------------------
MaxNotifications == 2   \* longest list of notifications
MaxDuration == 2        \* longest duration of a notification
MaxNow == 3             \* last reading of the clock (Date.now())

\* ui while the UIProvider is mounted and its mount effects have run.
\*   state          the reducer's state
\*   timers         the timeouts of the auto-remove effect's last run, in the
\*                  order it created them: the id to remove and the time left
\*   effectPending  state.notifications changed; the effect has not re-run
\*   now            the clock: a notification added at now has id now
\*   op             the last step of the provider
UIMounted(darkMode) ==
  [phase |-> "ready", state |-> uiInitialState, DARK_MODE |-> darkMode,
   queue |-> <<>>, applied |-> "light", strict |-> FALSE, saved |-> Null,
   timers |-> <<>>, effectPending |-> FALSE, now |-> 0, op |-> "none"]

InitNotifications ==
  /\ AuthAbsent
  /\ storage = EmptyStorage
  /\ ui = UIMounted(FALSE)
  /\ device = Null
  /\ query = Null

uiCallable == ui.phase = "ready" /\ ~ui.effectPending

\* A dispatch that changes state.notifications: the next render's array is a
\* new one (Append, filter and [] all make one), so the effect re-runs.
uiDispatchNotifications(action, op) ==
  /\ ui' = [ui EXCEPT !.state = uiReducer(ui.state, action, ui.now),
                      !.effectPending = TRUE, !.op = op]
  /\ UNCHANGED <<authStore, storage, device, query>>

addNotification(title, duration) ==
  /\ uiCallable
  /\ Len(ui.state.notifications) < MaxNotifications
  /\ uiDispatchNotifications(
       [type |-> "ADD_NOTIFICATION", payload |-> [title |-> title, duration |-> duration]],
       "add")

removeNotification(id) ==
  /\ uiCallable
  /\ uiDispatchNotifications([type |-> "REMOVE_NOTIFICATION", payload |-> id], "remove")

clearNotifications ==
  /\ uiCallable
  /\ uiDispatchNotifications([type |-> "CLEAR_NOTIFICATIONS"], "clear")

\* The timeouts the effect creates: one per notification with a positive
\* duration, in list order, each with the full duration.
RECURSIVE ArmTimers(_)
ArmTimers(ns) ==
  IF ns = <<>> THEN <<>>
  ELSE IF Head(ns).duration > 0
       THEN <<[id |-> Head(ns).id, left |-> Head(ns).duration]>> \o ArmTimers(Tail(ns))
       ELSE ArmTimers(Tail(ns))

\* Cleanup of the previous run (every timeout cleared), then the body.
autoRemoveEffect ==
  /\ ui.phase = "ready"
  /\ ui.effectPending
  /\ ui' = [ui EXCEPT !.timers = ArmTimers(ui.state.notifications),
                      !.effectPending = FALSE, !.op = "effect"]
  /\ UNCHANGED <<authStore, storage, device, query>>

DueTimers == {i \in DOMAIN ui.timers : ui.timers[i].left = 0}

\* The first due timeout runs: it dispatches REMOVE_NOTIFICATION with the id
\* it was created for.
removeTimerFires ==
  /\ ui.phase = "ready"
  /\ DueTimers # {}
  /\ LET i == CHOOSE k \in DueTimers : \A m \in DueTimers : k <= m
     IN  ui' = [ui EXCEPT
                  !.state = uiReducer(ui.state,
                              [type |-> "REMOVE_NOTIFICATION", payload |-> ui.timers[i].id],
                              ui.now),
                  !.timers = SubSeq(@, 1, i - 1) \o SubSeq(@, i + 1, Len(@)),
                  !.effectPending = TRUE, !.op = "timer"]
  /\ UNCHANGED <<authStore, storage, device, query>>

\* The clock advances by one unit; no timeout is due and no effect waits.
uiTick ==
  /\ ui.phase = "ready"
  /\ ~ui.effectPending
  /\ DueTimers = {}
  /\ ui.now < MaxNow
  /\ ui' = [ui EXCEPT !.now = @ + 1,
                      !.timers = [i \in DOMAIN @ |-> [@[i] EXCEPT !.left = @ - 1]],
                      !.op = "tick"]
  /\ UNCHANGED <<authStore, storage, device, query>>

NotificationNext ==
  \/ \E title \in Titles, duration \in 0..MaxDuration : addNotification(title, duration)
  \/ \E id \in 0..MaxNow : removeNotification(id)
  \/ clearNotifications
  \/ autoRemoveEffect
  \/ removeTimerFires
  \/ uiTick

NotificationSpec == InitNotifications /\ [][NotificationNext]_vars

\* ------------------------------------------------------------------------
\* UI store: theme
\* ------------------------------------------------------------------------
\* The localStorage key of the theme preference.
THEME_KEY == "theme"

\* ui after the UIProvider's first render, before any effect.
\*   DARK_MODE  CONFIG.FEATURES.DARK_MODE
\*   strict     the build runs mount effects twice (reactStrictMode in a
\*              development build)
\*   prefers    what matchMedia('(prefers-color-scheme: dark)') answers
\*   saved      what storage held under 'theme' before the mount (a string,
\*              or Null)
\*   queue      actions dispatched and not yet rendered
\*   applied    state.theme at the apply-theme effect's last run ("none"
\*              before its first)
ThemeRendered(darkMode, strict, prefers, saved) ==
  [phase |-> "rendered", state |-> uiInitialState, DARK_MODE |-> darkMode,
   queue |-> <<>>, applied |-> "none", strict |-> strict, prefers |-> prefers,
   saved |-> saved, op |-> "none"]

InitTheme ==
  /\ AuthAbsent
  /\ device = Null
  /\ query = Null
  /\ \E darkMode \in BOOLEAN, strict \in BOOLEAN, prefers \in Themes,
        saved \in {Str(<<t>>) : t \in Themes} \cup {Null} :
       /\ ui = ThemeRendered(darkMode, strict, prefers, saved)
       /\ storage = IF saved = Null THEN EmptyStorage
                    ELSE setItem(EmptyStorage, THEME_KEY, saved, TRUE)

\* What the theme-initialisation effect dispatches, reading storage st.
themeInitEffect(st) ==
  LET savedTheme == getItem(st, THEME_KEY)
  IN  IF Truthy(savedTheme) /\ ui.DARK_MODE
      THEN <<[type |-> "SET_THEME", payload |-> savedTheme.chars[1]]>>
      ELSE IF ui.DARK_MODE
           THEN <<[type |-> "SET_THEME", payload |-> ui.prefers]>>
           ELSE <<>>

\* The apply-theme effect of a render with the given theme:
\* localStorage.setItem('theme', state.theme).
applyThemeBody(st, theme) == setItem(st, THEME_KEY, Str(<<theme>>), TRUE)

\* The effects of the mount, all run with the first render's state (the
\* dispatches wait for the next render): theme initialisation, then apply
\* theme; in a strict build both run a second time at once.
themeMountEffects ==
  /\ ui.phase = "rendered"
  /\ LET theme == ui.state.theme
         st1 == applyThemeBody(storage, theme)
         q1 == themeInitEffect(storage)
         q2 == q1 \o themeInitEffect(st1)
     IN  /\ storage' = IF ui.strict THEN applyThemeBody(st1, theme) ELSE st1
         /\ ui' = [ui EXCEPT !.phase = "ready", !.applied = theme,
                             !.queue = IF ui.strict THEN q2 ELSE q1,
                             !.op = "mount"]
  /\ UNCHANGED <<authStore, device, query>>

RECURSIVE ReduceAll(_, _)
ReduceAll(s, q) ==
  IF q = <<>> THEN s ELSE ReduceAll(uiReducer(s, Head(q), 0), Tail(q))

\* The render after dispatches: the reducer takes the queued actions in order.
uiRender ==
  /\ ui.phase = "ready"
  /\ ui.queue # <<>>
  /\ ui' = [ui EXCEPT !.state = ReduceAll(@, ui.queue), !.queue = <<>>]
  /\ UNCHANGED <<authStore, storage, device, query>>

\* The apply-theme effect after a render that changed state.theme.
applyThemeEffect ==
  /\ ui.phase = "ready"
  /\ ui.queue = <<>>
  /\ ui.state.theme # ui.applied
  /\ storage' = applyThemeBody(storage, ui.state.theme)
  /\ ui' = [ui EXCEPT !.applied = ui.state.theme]
  /\ UNCHANGED <<authStore, device, query>>

\* setTheme: dispatches only with the feature enabled.
setTheme(theme) ==
  /\ ui.phase = "ready"
  /\ ui.queue = <<>>
  /\ ui.state.theme = ui.applied
  /\ ui' = [ui EXCEPT !.queue = IF ui.DARK_MODE
                                 THEN Append(@, [type |-> "SET_THEME", payload |-> theme])
                                 ELSE @,
                      !.op = "setTheme"]
  /\ UNCHANGED <<authStore, storage, device, query>>

ThemeNext ==
  \/ themeMountEffects
  \/ uiRender
  \/ applyThemeEffect
  \/ \E theme \in Themes : setTheme(theme)

ThemeSpec == InitTheme /\ [][ThemeNext]_vars

\* No dispatch waits for a render and no effect waits to run.
ThemeSettled ==
  ui.phase = "ready" /\ ui.queue = <<>> /\ ui.state.theme = ui.applied

\* ------------------------------------------------------------------------
\* Device provider: getDeviceInfo
\* ------------------------------------------------------------------------
MaxWidth == 3        \* widest window (window.innerWidth)
MaxBreakpoint == 3   \* largest configured breakpoint
MaxListeners == 3    \* orientationchange listeners counted before the model stops
MaxPending == 1      \* delayed refreshes waiting at once

\* parseInt of an environment value that does not start with a number.
NaN == -1

\* BREAKPOINTS.MOBILE and BREAKPOINTS.DESKTOP: parseInt of an environment
\* variable, each on its own, with no check of one against the other.
Breakpoints == {NaN} \cup 0..MaxBreakpoint

\* a < b and a >= b of JavaScript numbers: both false when either is NaN.
Lt(a, b) == a # NaN /\ b # NaN /\ a < b

Ge(a, b) == a # NaN /\ b # NaN /\ a >= b

\* getDeviceInfo, with the fields the breakpoints decide. Without a window
\* (server render) it answers the desktop fallback.
getDeviceInfo(hasWindow, screenWidth, MOBILE, DESKTOP) ==
  IF ~hasWindow
  THEN [isMobile |-> FALSE, isTablet |-> FALSE, isDesktop |-> TRUE]
  ELSE [isMobile |-> Lt(screenWidth, MOBILE),
        isTablet |-> Ge(screenWidth, MOBILE) /\ Lt(screenWidth, DESKTOP),
        isDesktop |-> Ge(screenWidth, DESKTOP)]

\* How many of the three classes a DeviceInfo claims.
Classes(info) ==
  (IF info.isMobile THEN 1 ELSE 0) + (IF info.isTablet THEN 1 ELSE 0)
    + (IF info.isDesktop THEN 1 ELSE 0)

\* ------------------------------------------------------------------------
\* Device provider: effects and listeners
\* ------------------------------------------------------------------------
\* device while the DeviceProvider exists.
\*   phase        "rendered" (useState ran, no effect yet), "mounted",
\*                "unmounted"
\*   window       typeof window !== 'undefined'
\*   innerWidth   window.innerWidth
\*   info         the DeviceInfo in state
\*   vhRanWith    device.isMobile at the viewport-height effect's last run
\*   handleResize, handleOrientationChange, setVH, anonymous
\*                how many times window holds each listener; anonymous is the
\*                arrow function the viewport-height effect registers for
\*                orientationchange
\*   refreshes    setTimeout(refreshDevice, 100) callbacks waiting
\*   lateRefresh  a delayed refresh ran after the unmount
\*   op           the last step
DeviceRendered(hasWindow, width, MOBILE, DESKTOP) ==
  [phase |-> "rendered", window |-> hasWindow, innerWidth |-> width,
   MOBILE |-> MOBILE, DESKTOP |-> DESKTOP,
   info |-> getDeviceInfo(hasWindow, width, MOBILE, DESKTOP),
   vhRanWith |-> FALSE, handleResize |-> 0, handleOrientationChange |-> 0,
   setVH |-> 0, anonymous |-> 0, refreshes |-> 0, lateRefresh |-> FALSE,
   op |-> "none"]

InitDevice ==
  /\ AuthAbsent
  /\ storage = EmptyStorage
  /\ ui = Null
  /\ query = Null
  /\ \E hasWindow \in BOOLEAN, width \in 0..MaxWidth,
        MOBILE \in Breakpoints, DESKTOP \in Breakpoints :
       device = DeviceRendered(hasWindow, width, MOBILE, DESKTOP)

\* The body of the viewport-height effect on a device d: nothing unless
\* device.isMobile; else setVH for resize and a new arrow function for
\* orientationchange.
vhBody(d) ==
  IF d.info.isMobile
  THEN [d EXCEPT !.setVH = @ + 1, !.anonymous = @ + 1, !.vhRanWith = TRUE]
  ELSE [d EXCEPT !.vhRanWith = FALSE]

\* Its cleanup, returned only by a run that passed the guard:
\* removeEventListener('resize', setVH) removes setVH, and
\* removeEventListener('orientationchange', setVH) removes nothing, since
\* setVH was never registered for that event.
vhCleanup(d) ==
  IF d.vhRanWith THEN [d EXCEPT !.setVH = @ - 1] ELSE d

\* The effects of the mount, in a browser: the resize/orientation effect adds
\* its two listeners, the viewport-height effect runs its body.
deviceMountEffects ==
  /\ device.phase = "rendered"
  /\ device.window
  /\ device' = [vhBody([device EXCEPT !.handleResize = 1,
                                      !.handleOrientationChange = 1])
                  EXCEPT !.phase = "mounted", !.op = "mount"]
  /\ UNCHANGED <<authStore, storage, ui, query>>

\* refreshDevice: setDevice(getDeviceInfo()).
refreshDevice(d) ==
  [d EXCEPT !.info = getDeviceInfo(d.window, d.innerWidth, d.MOBILE, d.DESKTOP)]

\* The window is resized to width: every resize listener runs. handleResize
\* refreshes the state while it is registered; setVH only sets a style.
resize(width) ==
  /\ device.phase \in {"mounted", "unmounted"}
  /\ width # device.innerWidth
  /\ LET d == [device EXCEPT !.innerWidth = width, !.op = "resize"]
     IN device' = IF d.handleResize > 0 THEN refreshDevice(d) ELSE d
  /\ UNCHANGED <<authStore, storage, ui, query>>

\* The viewport-height effect after a render in which device.isMobile changed:
\* the cleanup of its last run, then its body.
viewportHeightEffect ==
  /\ device.phase = "mounted"
  /\ device.info.isMobile # device.vhRanWith
  /\ device.anonymous < MaxListeners
  /\ device' = [vhBody(vhCleanup(device)) EXCEPT !.op = "effect"]
  /\ UNCHANGED <<authStore, storage, ui, query>>

\* orientationchange: handleOrientationChange, while registered, schedules
\* setTimeout(refreshDevice, 100); nothing keeps the timeout's handle.
orientationChange ==
  /\ device.phase = "mounted"
  /\ device.handleOrientationChange > 0
  /\ device.refreshes < MaxPending
  /\ device' = [device EXCEPT !.refreshes = @ + 1, !.op = "orientationchange"]
  /\ UNCHANGED <<authStore, storage, ui, query>>

\* A delayed refresh runs: refreshDevice, whether or not the provider is
\* still mounted (setDevice on an unmounted component changes nothing).
delayedRefreshRuns ==
  /\ device.refreshes > 0
  /\ LET d == [device EXCEPT !.refreshes = @ - 1, !.op = "refresh"]
     IN device' = IF device.phase = "mounted" THEN refreshDevice(d)
                  ELSE [d EXCEPT !.lateRefresh = TRUE]
  /\ UNCHANGED <<authStore, storage, ui, query>>

\* Unmount: the cleanup of every effect. The first effect removes its two
\* listeners; the viewport-height effect runs vhCleanup.
deviceUnmount ==
  /\ device.phase = "mounted"
  /\ device' = [vhCleanup(device) EXCEPT !.handleResize = 0,
                                        !.handleOrientationChange = 0,
                                        !.phase = "unmounted", !.op = "unmount"]
  /\ UNCHANGED <<authStore, storage, ui, query>>

DeviceNext ==
  \/ deviceMountEffects
  \/ \E width \in 0..MaxWidth : resize(width)
  \/ viewportHeightEffect
  \/ orientationChange
  \/ delayedRefreshRuns
  \/ deviceUnmount

DeviceSpec == InitDevice /\ [][DeviceNext]_vars

\* ------------------------------------------------------------------------
\* Query client: retries
\* ------------------------------------------------------------------------
MaxAttempt == 8   \* largest attempt index retryDelay is applied to

\* defaultOptions.queries.retryDelay.
retryDelay_uncapped(attemptIndex) == 1000 * 2 ^ attemptIndex

retryDelay(attemptIndex) == Min(1000 * 2 ^ attemptIndex, 30000)

\* defaultOptions.queries.retry and defaultOptions.mutations.retry.
Kinds == {"query", "mutation"}

retry(kind) == IF kind = "query" THEN 3 ELSE 1

\* query: one query or mutation run by the client with the default options.
\*   status        "fetching", "waiting" (for a retry), "success", "error"
\*   failureCount  failures so far
\*   retries       executions after the first
\*   delay         the wait before the pending retry (queries; a mutation
\*                 waits the library's own default, which is not configured)
\*   attemptIndex  an attempt index retryDelay is asked about
\*   delays        retryDelay at attemptIndex and at attemptIndex + 1, once
\*                 asked (<<>> before)
QueryStarted(kind, attemptIndex) ==
  [kind |-> kind, status |-> "fetching", failureCount |-> 0, retries |-> 0,
   delay |-> 0, attemptIndex |-> attemptIndex, delays |-> <<>>]

InitQuery ==
  /\ AuthAbsent
  /\ storage = EmptyStorage
  /\ ui = Null
  /\ device = Null
  /\ \E kind \in Kinds, attemptIndex \in 0..MaxAttempt :
       query = QueryStarted(kind, attemptIndex)

\* The execution fails: the client retries while failureCount < retry, after
\* retryDelay(failureCount), and counts the failure.
queryFails ==
  /\ query.status = "fetching"
  /\ query' = IF query.failureCount < retry(query.kind)
              THEN [query EXCEPT !.status = "waiting",
                                 !.delay = IF query.kind = "query"
                                           THEN retryDelay(query.failureCount)
                                           ELSE 0,
                                 !.failureCount = @ + 1]
              ELSE [query EXCEPT !.status = "error", !.delay = 0]
  /\ UNCHANGED <<authStore, storage, ui, device>>

\* The wait is over: the function runs again.
queryRetries ==
  /\ query.status = "waiting"
  /\ query' = [query EXCEPT !.status = "fetching", !.retries = @ + 1, !.delay = 0]
  /\ UNCHANGED <<authStore, storage, ui, device>>

querySucceeds ==
  /\ query.status = "fetching"
  /\ query' = [query EXCEPT !.status = "success"]
  /\ UNCHANGED <<authStore, storage, ui, device>>

\* retryDelay applied to the attempt index and to the next one.
retryDelayApplied ==
  /\ query.delays = <<>>
  /\ query' = [query EXCEPT !.delays = <<retryDelay(query.attemptIndex),
                                         retryDelay(query.attemptIndex + 1)>>]
  /\ UNCHANGED <<authStore, storage, ui, device>>

QueryNext ==
  \/ queryFails
  \/ queryRetries
  \/ querySucceeds
  \/ retryDelayApplied

QuerySpec == InitQuery /\ [][QueryNext]_vars

TypeOK ==
  /\ state.isAuthenticated \in BOOLEAN
  /\ state.isLoading \in BOOLEAN
  /\ DOMAIN storage \subseteq StorageKeys
  /\ warningTimer \in NotArmed..MaxTimeout
  /\ logoutTimer \in NotArmed..MaxTimeout

\* ------------------------------------------------------------------------
\* Claims
\* ------------------------------------------------------------------------
LoggedOut(s) ==
  /\ s.user = Null
  /\ s.tokens = Null
  /\ ~s.isAuthenticated

HasAll(st) == StorageKeys \subseteq DOMAIN st

\* C1: over login and logout calls with timer expiry as the only other
\* source of change, isAuthenticated is true exactly when the most recent
\* call was login and less than the session timeout has elapsed since that
\* login.  (At exactly the timeout the logout callback is due and either
\* value is accepted.  Under SessionSpec quiet tells that the most recent call
\* was login, and a session that runs before any call is a rehydrated one.)
C1_AuthIffLastLoginNotTimedOut ==
  call.op \notin {"none", "init"} =>
    /\ state.isAuthenticated => (quiet /\ sinceLogin <= SESSION_TIMEOUT)
    /\ (quiet /\ sinceLogin < SESSION_TIMEOUT) => state.isAuthenticated

\* C2: in every reachable state isAuthenticated is true if and only if user
\* and tokens are both non-null.
C2_AuthIffUserAndTokens ==
  state.isAuthenticated <=> (state.user # Null /\ state.tokens # Null)

\* C3: right after logout() the storage holds no access token, no refresh
\* token and no user record.
C3_LogoutClearsStorage ==
  call.op = "logout" =>
    /\ getItem(storage, TOKEN_STORAGE_KEY) = Null
    /\ getItem(storage, REFRESH_TOKEN_KEY) = Null
    /\ getItem(storage, USER_DATA_KEY) = Null

C3_Witness ==
  /\ call.op = "logout"
  /\ ~state.isAuthenticated
  /\ storage = EmptyStorage
  /\ logoutTimer # NotArmed

\* C4: a logout (explicit or by the timer) that directly follows a logout
\* (explicit or by the timer) leaves the in-memory state and the storage as
\* the first one left them: user and tokens null, isAuthenticated false,
\* storage empty.
C4_LogoutIdempotent ==
  [][(call.op \in LogoutOps /\ call'.op \in LogoutOps) =>
       /\ state' = state
       /\ storage' = storage
       /\ LoggedOut(state')
       /\ storage' = EmptyStorage]_vars

C4_Witness ==
  /\ call.op \in LogoutOps
  /\ call.again
  /\ LoggedOut(state)
  /\ storage = EmptyStorage

\* C5: initialisation from a storage that holds a user record, an access
\* token and a refresh token ends authenticated and not loading, with the
\* stored record as user and the stored strings as tokens, and without a
\* request to the backend.
C5_RehydrateFull ==
  (call.op = "init" /\ HasAll(storage)) =>
    /\ state.isAuthenticated
    /\ ~state.isLoading
    /\ state.user # Null
    /\ JSONstringify(state.user) = storage[USER_DATA_KEY]
    /\ state.tokens # Null
    /\ state.tokens.access_token = storage[TOKEN_STORAGE_KEY]
    /\ state.tokens.refresh_token = storage[REFRESH_TOKEN_KEY]
    /\ backendRequests = 0

C5_Witness ==
  /\ call.op = "init"
  /\ HasAll(storage)
  /\ state.isAuthenticated
  /\ state.user.ref = 0

\* C6: initialisation from a storage that holds only part of a session ends
\* not authenticated, with user, tokens and error null and isLoading false.
C6_RehydratePartial ==
  (call.op = "init" /\ ~HasAll(storage) /\ storage # EmptyStorage) =>
    state = [initialState EXCEPT !.isLoading = FALSE]

C6_Witness ==
  /\ call.op = "init"
  /\ DOMAIN storage = {USER_DATA_KEY, TOKEN_STORAGE_KEY}
  /\ ~state.isAuthenticated
  /\ ~state.isLoading

\* C7: with AUTO_LOGOUT_WARNING < SESSION_TIMEOUT, after a login followed by
\* no other call: no warning before T - W, exactly one warning from T - W on,
\* authenticated before T, and from T on exactly one forced logout, after
\* which the store is logged out and the storage is empty.
C7_WarningThenLogout ==
  (quiet /\ AUTO_LOGOUT_WARNING < SESSION_TIMEOUT) =>
    /\ sinceLogin < SESSION_TIMEOUT - AUTO_LOGOUT_WARNING => warnings = 0
    /\ sinceLogin > SESSION_TIMEOUT - AUTO_LOGOUT_WARNING => warnings = 1
    /\ warnings <= 1
    /\ sinceLogin < SESSION_TIMEOUT => (forced = 0 /\ state.isAuthenticated)
    /\ sinceLogin > SESSION_TIMEOUT => forced = 1
    /\ forced <= 1
    /\ forced = 1 => (LoggedOut(state) /\ storage = EmptyStorage)

\* C8: after login(u, t) whose storage writes succeed, the state holds u and
\* t, is authenticated, not loading and without error, and the storage holds
\* the serialised u and the two token strings of t under their keys.
C8_LoginSetsStateAndStorage ==
  (call.op = "login" /\ call.ok) =>
    /\ state = [user |-> call.user, tokens |-> call.tokens,
                isAuthenticated |-> TRUE, isLoading |-> FALSE, error |-> Null]
    /\ HasAll(storage)
    /\ storage[USER_DATA_KEY] = JSONstringify(call.user)
    /\ storage[TOKEN_STORAGE_KEY] = call.tokens.access_token
    /\ storage[REFRESH_TOKEN_KEY] = call.tokens.refresh_token

C8_Witness ==
  /\ call.op = "login"
  /\ call.ok
  /\ state.user = call.user
  /\ HasAll(storage)

\* C9: updateUser(u) replaces only the user field and only the user-record
\* key; updateTokens(t) replaces only the tokens field and only the two token
\* keys; every other field and key is left as it was.
C9_UpdateFrame ==
  [][call'.op = "other" =>
       /\ \A u \in CallerUsers, userOk \in BOOLEAN :
            updateUser(u, userOk) =>
              /\ state' = [state EXCEPT !.user = u]
              /\ getItem(storage', TOKEN_STORAGE_KEY) = getItem(storage, TOKEN_STORAGE_KEY)
              /\ getItem(storage', REFRESH_TOKEN_KEY) = getItem(storage, REFRESH_TOKEN_KEY)
              /\ getItem(storage', USER_DATA_KEY) =
                   IF userOk THEN JSONstringify(u) ELSE getItem(storage, USER_DATA_KEY)
       /\ \A t \in TokenObjs, fault \in TokenFaults :
            updateTokens(t, fault) =>
              /\ state' = [state EXCEPT !.tokens = t]
              /\ getItem(storage', USER_DATA_KEY) = getItem(storage, USER_DATA_KEY)
              /\ fault = "none" =>
                   /\ getItem(storage', TOKEN_STORAGE_KEY) = t.access_token
                   /\ getItem(storage', REFRESH_TOKEN_KEY) = t.refresh_token
  ]_vars

\* A rehydrated session whose user has been replaced by a caller's object:
\* only updateUser does that and leaves the rehydrated tokens in place.
C9_Witness ==
  /\ state.isAuthenticated
  /\ state.user # Null
  /\ state.user.ref # 0
  /\ state.tokens # Null
  /\ state.tokens.expires_in = 0
  /\ state.error # Null
  /\ HasAll(storage)
  /\ storage[USER_DATA_KEY] = JSONstringify(state.user)

\* C10 as stated: setLoading(b) changes only isLoading and setError(e)
\* changes only error; neither touches the storage.
C10_StatusFlagsOnly ==
  [][call'.op = "other" =>
       /\ \A b \in BOOLEAN :
            setLoading(b) =>
              /\ state' = [state EXCEPT !.isLoading = b]
              /\ storage' = storage
              /\ storageReads' = storageReads
       /\ \A e \in ErrorStrings \cup {Null} :
            setError(e) =>
              /\ state' = [state EXCEPT !.error = e]
              /\ storage' = storage
              /\ storageReads' = storageReads
  ]_vars

\* C10 amended: setLoading(b) changes only isLoading; setError(e) sets error
\* to e and resets isLoading to false; neither changes user, tokens or
\* isAuthenticated, and neither reads or writes the storage.
C10_StatusFlagsAmended ==
  [][call'.op = "other" =>
       /\ \A b \in BOOLEAN :
            setLoading(b) =>
              /\ state' = [state EXCEPT !.isLoading = b]
              /\ storage' = storage
              /\ storageReads' = storageReads
       /\ \A e \in ErrorStrings \cup {Null} :
            setError(e) =>
              /\ state' = [state EXCEPT !.error = e, !.isLoading = FALSE]
              /\ storage' = storage
              /\ storageReads' = storageReads
  ]_vars

\* An error is held (only setError sets one) by an authenticated store.
C10_Witness ==
  /\ call.op = "other"
  /\ state.error # Null
  /\ ~state.isLoading
  /\ state.isAuthenticated
  /\ storage # EmptyStorage

\* The storage mirrors the session held in memory: the user record is stored
\* exactly when state.user is non-null and is that user's JSON, and the two
\* token keys are stored exactly when state.tokens is non-null and hold its
\* strings.
Mirrors(s, st) ==
  /\ (USER_DATA_KEY \in DOMAIN st) <=> (s.user # Null)
  /\ s.user # Null => getItem(st, USER_DATA_KEY) = JSONstringify(s.user)
  /\ (TOKEN_STORAGE_KEY \in DOMAIN st) <=> (s.tokens # Null)
  /\ (REFRESH_TOKEN_KEY \in DOMAIN st) <=> (s.tokens # Null)
  /\ s.tokens # Null =>
       /\ getItem(st, TOKEN_STORAGE_KEY) = s.tokens.access_token
       /\ getItem(st, REFRESH_TOKEN_KEY) = s.tokens.refresh_token

\* C11: with a storage whose writes all succeed, after every state-changing
\* operation (login, logout, updateUser, updateTokens, the timer's forced
\* logout), in any sequence, the storage mirrors the session in memory.
C11_StorageMirrorsState ==
  call.op \in {"login", "logout", "timeout", "other"} => Mirrors(state, storage)

\* C12: when a storage write fails during login (the user record, either
\* token, or all of them), login still returns and the state in memory is the
\* authenticated one, with the given user and tokens.
C12_LoginSurvivesWriteFailure ==
  (call.op = "login" /\ ~call.ok) =>
    state = [user |-> call.user, tokens |-> call.tokens, isAuthenticated |-> TRUE,
             isLoading |-> FALSE, error |-> Null]

\* Every write of a login failed: nothing is stored, the session is held.
C12_Witness ==
  /\ call.op = "login"
  /\ ~call.ok
  /\ state.isAuthenticated
  /\ state.user = call.user
  /\ storage = EmptyStorage

\* C13: when a read of the storage throws during initialisation, or the
\* stored user record cannot be parsed, initialisation still ends, with the
\* store not authenticated, holding no session, and isLoading false.
C13_UnreadableStorageNotAuthenticated ==
  (call.op = "init" /\ (~call.ok \/ getItem(storage, USER_DATA_KEY) = CorruptRecord)) =>
    /\ ~state.isAuthenticated
    /\ ~state.isLoading
    /\ state.user = Null
    /\ state.tokens = Null

\* A complete session is stored and a read of it threw.
C13_Witness ==
  /\ call.op = "init"
  /\ ~call.ok
  /\ HasAll(storage)
  /\ getItem(storage, USER_DATA_KEY) # CorruptRecord
  /\ ~state.isAuthenticated
  /\ ~state.isLoading

\* The persisted session is complete or entirely absent, and a session is
\* persisted exactly when one is held in memory.
Consistent(s, st) ==
  /\ HasAll(st) \/ st = EmptyStorage
  /\ HasAll(st) <=> s.isAuthenticated

\* C14: after any store operation in which some storage write fails, the
\* session is not left partial: the persisted session is complete or absent
\* and agrees with the memory on whether a session exists.
C14_NoPartialSession ==
  [][(\/ \E u \in CallerUsers, t \in TokenObjs, userOk \in BOOLEAN, fault \in TokenFaults :
          ~(userOk /\ fault = "none") /\ login(u, t, userOk, fault)
      \/ \E u \in CallerUsers : updateUser(u, FALSE)
      \/ \E t \in TokenObjs, fault \in TokenFaults \ {"none"} : updateTokens(t, fault))
       => Consistent(state', storage')
  ]_vars

\* C15: an error set by setError stays in the error field until clearError()
\* or setError clears it; no other operation (login, logout, updateUser,
\* updateTokens, setLoading, timer expiry) changes the error field.
C15_ErrorOnlyClearedExplicitly ==
  [][state'.error # state.error =>
       \/ clearError
       \/ \E e \in ErrorStrings \cup {Null} : setError(e)
  ]_vars

\* C15 amended: the error field changes only by setError, by clearError, and
\* by login, logout and the timer's forced logout, which reset it to null;
\* updateUser, updateTokens, setLoading and the warning leave it as it is.
C15_ErrorClearedAmended ==
  [][state'.error # state.error =>
       \/ clearError
       \/ \E e \in ErrorStrings \cup {Null} : setError(e)
       \/ call'.op \in {"login", "logout", "timeout"} /\ state'.error = Null
  ]_vars

\* An error is held and isLoading is true: setError resets isLoading, so the
\* error has outlived a later setLoading(true).
C15_Witness ==
  /\ state.error # Null
  /\ state.isLoading
  /\ phase = "ready"

\* C16: once logout() has been called, neither the warning callback nor the
\* forced-logout callback armed for the session it ended ever runs.  (No
\* timer is armed between a logout() and the next operation, so a callback
\* that runs then was armed for the ended session.)
C16_NoCallbackAfterLogout ==
  [][call.op = "logout" => ~(warningTimerFires \/ logoutTimerFires)]_vars

\* C17: at most one warning timer and one logout timer are armed (each is
\* one countdown here: the effect's cleanup clears the pair before the effect
\* arms a new one); none is armed while the store is not authenticated; a
\* pair is armed after every successful login and every successful
\* rehydration.  Stated for the states in which no effect run is waiting.
C17_TimersFollowAuthentication ==
  (phase = "ready" /\ ~effectPending) =>
    /\ ~state.isAuthenticated => (warningTimer = NotArmed /\ logoutTimer = NotArmed)
    /\ (state.isAuthenticated /\ call.op = "init") => logoutTimer # NotArmed
    /\ (state.isAuthenticated /\ call.op = "login" /\ sinceLogin = 0 /\ warnings = 0) =>
         (warningTimer # NotArmed /\ logoutTimer # NotArmed)

\* C18: the forced logout comes when the session timeout has elapsed since
\* the session's start, whatever updateUser, updateTokens, setLoading,
\* setError and clearError calls occur in between: the effect run that
\* follows such a call neither moves the logout timer's due time nor arms the
\* warning again.
C18_UpdatesKeepDeadline ==
  [][(call.op = "other" /\ effectPending /\ ~effectPending') => timers' = timers]_vars

\* C19: when the session timeout is at most the warning lead time, the
\* warning of a session fires at or after that session's forced logout, never
\* before it.
C19_WarningNotBeforeLogout ==
  (AUTO_LOGOUT_WARNING >= SESSION_TIMEOUT /\ quiet /\ warnings >= 1) => forced >= 1

\* C19 amended: when the session timeout is at most the warning lead time,
\* the warning timer is armed with delay 0: it is due at once, and when a
\* forced logout runs the warning armed with it has already run.
C19_WarningAtOnceAmended ==
  [][AUTO_LOGOUT_WARNING >= SESSION_TIMEOUT =>
       /\ warningTimer' \in {NotArmed, 0}
       /\ call'.op = "timeout" => warningTimer = NotArmed
  ]_vars

\* The warning of a login has run while its logout timer has all its time
\* left.
C19_Witness ==
  /\ AUTO_LOGOUT_WARNING >= SESSION_TIMEOUT
  /\ quiet
  /\ sinceLogin = 0
  /\ warnings = 1
  /\ forced = 0
  /\ state.isAuthenticated
  /\ warningTimer = NotArmed
  /\ logoutTimer = SESSION_TIMEOUT

\* C20: every operation a consumer of the context has that changes user,
\* tokens or isAuthenticated in memory makes the matching storage write or
\* delete with it: after such a step (the storage working) the changed part
\* of the session is mirrored by the storage.
C20_OneMutationChannel ==
  [][(phase = "ready" /\ phase' = "ready") =>
       /\ state'.user # state.user =>
            /\ (USER_DATA_KEY \in DOMAIN storage') <=> (state'.user # Null)
            /\ state'.user # Null =>
                 getItem(storage', USER_DATA_KEY) = JSONstringify(state'.user)
       /\ state'.tokens # state.tokens =>
            /\ (TOKEN_STORAGE_KEY \in DOMAIN storage') <=> (state'.tokens # Null)
            /\ (REFRESH_TOKEN_KEY \in DOMAIN storage') <=> (state'.tokens # Null)
            /\ state'.tokens # Null =>
                 /\ getItem(storage', TOKEN_STORAGE_KEY) = state'.tokens.access_token
                 /\ getItem(storage', REFRESH_TOKEN_KEY) = state'.tokens.refresh_token
       /\ state'.isAuthenticated # state.isAuthenticated =>
            (HasAll(storage') <=> state'.isAuthenticated)
  ]_vars

\* C21: the storage is read exactly once in the lifetime of a provider, at
\* initialisation: no later operation reads it and initialisation does not
\* run a second time.
C21_StorageReadOnce ==
  phase = "ready" => storageReads = 1

\* C22: a session started by a login is never force-logged-out before the
\* session timeout has elapsed since that login: a logout timer armed for an
\* earlier session never ends the newer one.
C22_NoEarlyForcedLogout ==
  (quiet /\ forced >= 1) => sinceLogin >= SESSION_TIMEOUT

\* C23: in every reachable state where isAuthenticated is false,
\* hasPermission(p) is false for every permission p and isOwnerOrManager() is
\* false.
C23_NoPermissionLoggedOut ==
  ~state.isAuthenticated =>
    /\ \A p \in Permissions : ~hasPermission(state, p)
    /\ ~isOwnerOrManager(state)

\* C24: persisting then rehydrating is a round trip: after login(u, t) with a
\* working storage, a fresh provider initialised from that storage holds a
\* user equal to u (in content) and tokens equal to t in every field.
C24_RoundTrip ==
  [][(call.op = "reload" /\ call'.op = "init") =>
       /\ state'.isAuthenticated
       /\ state'.user = MkUser(0, <<call.user.role, call.user.permissions>>)
       /\ state'.tokens = call.tokens
  ]_vars

\* C24 amended: the fresh provider is authenticated and holds a user equal to
\* u in content and t's access_token and refresh_token; token_type is
\* "bearer" and expires_in is 0, whatever t held.
C24_RoundTripAmended ==
  [][(call.op = "reload" /\ call'.op = "init") =>
       /\ state'.isAuthenticated
       /\ state'.user = MkUser(0, <<call.user.role, call.user.permissions>>)
       /\ state'.tokens = [call.tokens EXCEPT !.token_type = "bearer", !.expires_in = 0]
  ]_vars

\* A provider of a profile that was empty at first has restored a session.
C24_Witness ==
  /\ call.op = "init"
  /\ storageReads = 1
  /\ state.isAuthenticated
  /\ state.user.ref = 0
  /\ state.tokens.expires_in = 0
  /\ getItem(storage, USER_DATA_KEY) = JSONstringify(state.user)
  /\ getItem(storage, TOKEN_STORAGE_KEY) = state.tokens.access_token

\* C25: after any sequence of addNotification, removeNotification and
\* clearNotifications calls the notifications in the list have pairwise
\* distinct ids.
C25_DistinctIds ==
  ui # Null =>
    \A i, j \in DOMAIN ui.state.notifications :
      ui.state.notifications[i].id = ui.state.notifications[j].id => i = j

\* C26: every notification added with a positive duration d is removed by
\* its timer once d has elapsed since it was added (its id is the time it was
\* added at), whatever is added or removed in the meantime: none stays in the
\* list past d, and a timer removes none before its d has elapsed.
C26_AutoRemoveOnTime ==
  [][/\ \A i \in DOMAIN ui'.state.notifications :
          LET n == ui'.state.notifications[i]
          IN  n.duration > 0 => ui'.now - n.id <= n.duration
     /\ ui'.op = "timer" =>
          \A i \in DOMAIN ui.state.notifications :
            LET n == ui.state.notifications[i]
            IN  (\A j \in DOMAIN ui'.state.notifications :
                   ui'.state.notifications[j].id # n.id)
                  => (n.duration > 0 /\ ui.now - n.id >= n.duration)
  ]_vars

\* C27: for every screen width and every configured pair of MOBILE and
\* DESKTOP breakpoints, the DeviceInfo in the provider's state claims exactly
\* one of isMobile, isTablet and isDesktop.
C27_ExactlyOneClass ==
  device # Null => Classes(device.info) = 1

\* C28: the DeviceProvider leaks no callbacks. While it is mounted, window
\* holds at most one of each listener its effects register; after the unmount
\* it holds none, and no delayed refresh has run after the unmount.
C28_NoLeakedCallbacks ==
  device # Null =>
    /\ device.handleResize <= 1 /\ device.handleOrientationChange <= 1
    /\ device.setVH <= 1 /\ device.anonymous <= 1
    /\ device.phase = "unmounted" =>
         /\ device.handleResize + device.handleOrientationChange
              + device.setVH + device.anonymous = 0
         /\ ~device.lateRefresh

\* C29: with the dark-mode feature enabled and a theme saved in storage,
\* once the mount effects have settled (strict build or not) the state's
\* theme is the saved theme and storage still holds it; after every setTheme,
\* once settled, the stored theme is the state's theme; with the feature
\* disabled the theme stays as it was first rendered.
C29_ThemePersists ==
  (ui # Null /\ ThemeSettled) =>
    /\ (ui.op = "mount" /\ ui.DARK_MODE /\ ui.saved # Null) =>
         /\ Str(<<ui.state.theme>>) = ui.saved
         /\ getItem(storage, THEME_KEY) = ui.saved
    /\ ui.op = "setTheme" => getItem(storage, THEME_KEY) = Str(<<ui.state.theme>>)
    /\ ~ui.DARK_MODE => ui.state.theme = uiInitialState.theme

\* C30: the retry delay is 1000 ms at attempt index 0, doubles from one index
\* to the next until it is capped at 30000 ms (so it is min(1000 * 2^n, 30000):
\* non-decreasing and never above 30000); a query waits that delay of its
\* failure count before each retry; a failed query is run again at most 3
\* times and a failed mutation at most once.
C30_RetryDelayAndCount ==
  query # Null =>
    /\ query.delays # <<>> =>
         /\ query.attemptIndex = 0 => query.delays[1] = 1000
         /\ query.delays[2] = Min(2 * query.delays[1], 30000)
         /\ query.delays[1] <= query.delays[2]
         /\ query.delays[2] <= 30000
    /\ (query.kind = "query" /\ query.status = "waiting") =>
         query.delay = CASE query.failureCount = 1 -> 1000
                         [] query.failureCount = 2 -> 2000
                         [] query.failureCount = 3 -> 4000
                         [] OTHER -> -1
    /\ query.retries <= (IF query.kind = "query" THEN 3 ELSE 1)

\* A query failed for good after its third retry, a delay past the cap
\* having been asked for.
C30_Witness ==
  /\ query # Null
  /\ query.kind = "query"
  /\ query.status = "error"
  /\ query.retries = 3
  /\ query.attemptIndex >= 5
  /\ query.delays = <<30000, 30000>>

====
